---- MODULE Spec2Model ----
(* Model of the violet-webhook service: the dead-letter store               *)
(* (dead_letter.py), the credential cache and CRM request helpers           *)
(* (salesforce_client.py), the orchestrator (violet_core.py) and the        *)
(* webhook / replay handlers (app.py).                                      *)
EXTENDS Integers, Sequences, FiniteSets, TLC

\* ------------------------------------------------------------------ bounds

\* webhook deliveries considered in one behaviour of Spec
MaxDeliveries == 1
\* dead_letter.append calls considered in one behaviour of SpecDL
MaxAppends == 2
\* last clock value (seconds) considered
MaxClock == 2700
\* seconds the clock advances in one Tick
TickSeconds == 900
\* distinct tokens an authentication endpoint may hand out
MaxSerial == 2
\* Job Applicant records counted per pair: RecordCap stands for "or more"
RecordCap == 2
\* distinct persons, and distinct jobs, in the inputs of a single call
MaxKey == 2
\* lines of a dead-letter file handed to a single call
MaxLines == 3
\* batches of contact ids in a single dedup call
MaxBatches == 2

\* ------------------------------------------------------- program constants

\* SF_TOKEN_CACHE_TTL (the name cannot start with the fairness prefix)
TOKEN_CACHE_TTL == 1800
MaxAttempts == 3

Workers == {"w1", "w2"}
WorkerOrder == <<"w1", "w2">>

\* ------------------------------------------------------------ identifiers
\* A CRM identifier string is modelled by its 3-character prefix, the key
\* that names the record and its length; the 18-character form of an id is
\* its 15-character form plus a checksum suffix, so s[:15] keeps prefix and
\* key and cuts the length.

EmptyStr == [prefix |-> "", key |-> 0, len |-> 0]
\* dict.get(..) found no such key
Absent == [prefix |-> "absent", key |-> 0, len |-> 0]
\* the URL field does not contain the path marker
NoMarker == [prefix |-> "nomarker", key |-> 0, len |-> 0]

Truthy(s) == s.len > 0 /\ s # Absent /\ s # NoMarker

Id(p, k, n) == [prefix |-> p, key |-> k, len |-> n]

\* the id taken whole, whatever its length
WholeId(s) == s

\* s[:15]
First15(s) == [s EXCEPT !.len = IF s.len > 15 THEN 15 ELSE s.len]

\* ----------------------------------------------------------------- events

STAGE_QUALIFIED == "New Application"
STAGE_INTERESTED == "Candidate Interested"
SYNC_QUAL_RESULTS == {"fully_qualified", "partially_qualified"}
SYNC_INTEREST_LEVELS == {"very_interested", "somewhat_interested"}
SKIP_AGENTS == {"SMS Violet - EMR Trainer Outreach", "Violet - MedPro Inbound Lead Agent"}

\* Chat objects: two chats about the same (person, job) pair, carried in
\* different fields and id forms, a chat still ongoing and a chat without a
\* job id. Spec delivers those of Chats.
ChatQ ==
    [chat_id |-> "chatQ", agent_name |-> "Violet", chat_status |-> "ended",
     has_custom |-> TRUE, opted_out |-> FALSE,
     qualification_result |-> "fully_qualified", interest_level |-> "",
     dv_candidate_id |-> Id("003", 1, 18), meta_candidate_id |-> Absent,
     candidate_salesforce_url |-> NoMarker,
     job_salesforce_url |-> Id("a0F", 1, 18), job_ID_18 |-> EmptyStr]

ChatI ==
    [chat_id |-> "chatI", agent_name |-> "Violet", chat_status |-> "ended",
     has_custom |-> TRUE, opted_out |-> FALSE,
     qualification_result |-> "not_qualified", interest_level |-> "somewhat_interested",
     dv_candidate_id |-> Absent, meta_candidate_id |-> Absent,
     candidate_salesforce_url |-> Id("003", 1, 15),
     job_salesforce_url |-> NoMarker, job_ID_18 |-> Id("a0F", 1, 18)]

ChatO ==
    [chat_id |-> "chatO", agent_name |-> "Violet", chat_status |-> "ongoing",
     has_custom |-> TRUE, opted_out |-> FALSE,
     qualification_result |-> "fully_qualified", interest_level |-> "",
     dv_candidate_id |-> Id("003", 1, 18), meta_candidate_id |-> Absent,
     candidate_salesforce_url |-> NoMarker,
     job_salesforce_url |-> Id("a0F", 1, 18), job_ID_18 |-> EmptyStr]

\* a qualified chat that names its person but no job
ChatJ ==
    [chat_id |-> "chatJ", agent_name |-> "Violet", chat_status |-> "ended",
     has_custom |-> TRUE, opted_out |-> FALSE,
     qualification_result |-> "fully_qualified", interest_level |-> "",
     dv_candidate_id |-> Id("003", 1, 18), meta_candidate_id |-> Absent,
     candidate_salesforce_url |-> NoMarker,
     job_salesforce_url |-> NoMarker, job_ID_18 |-> EmptyStr]

Chats == {ChatQ, ChatO, ChatJ}

\* a classifier that looks at the qualification result before the two gates
ClassifyQualificationFirst(chat) ==
    IF chat.has_custom /\ ~chat.opted_out /\ chat.qualification_result \in SYNC_QUAL_RESULTS
         THEN <<"qualified", STAGE_QUALIFIED>>
    ELSE IF chat.agent_name \in SKIP_AGENTS THEN <<"skip", "agent skipped">>
    ELSE IF chat.chat_status = "ongoing" THEN <<"skip", "chat still ongoing">>
    ELSE IF ~chat.has_custom THEN <<"skip", "no analysis data">>
    ELSE IF chat.opted_out THEN <<"skip", "opted out">>
    ELSE IF chat.interest_level \in SYNC_INTEREST_LEVELS
         THEN <<"interested", STAGE_INTERESTED>>
    ELSE <<"skip", "not qualified/interested">>

\* a classifier that looks at the interest level before the qualification
\* result and the opt-out flag
ClassifyInterestFirst(chat) ==
    IF chat.agent_name \in SKIP_AGENTS THEN <<"skip", "agent skipped">>
    ELSE IF chat.chat_status = "ongoing" THEN <<"skip", "chat still ongoing">>
    ELSE IF ~chat.has_custom THEN <<"skip", "no analysis data">>
    ELSE IF chat.interest_level \in SYNC_INTEREST_LEVELS
         THEN <<"interested", STAGE_INTERESTED>>
    ELSE IF chat.opted_out THEN <<"skip", "opted out">>
    ELSE IF chat.qualification_result \in SYNC_QUAL_RESULTS
         THEN <<"qualified", STAGE_QUALIFIED>>
    ELSE <<"skip", "not qualified/interested">>

\* classify_chat: <<action, detail>>
classify_chat(chat) ==
    IF chat.agent_name \in SKIP_AGENTS THEN <<"skip", "agent skipped">>
    ELSE IF chat.chat_status = "ongoing" THEN <<"skip", "chat still ongoing">>
    ELSE IF ~chat.has_custom THEN <<"skip", "no analysis data">>
    ELSE IF chat.opted_out THEN <<"skip", "opted out">>
    ELSE IF chat.qualification_result \in SYNC_QUAL_RESULTS
         THEN <<"qualified", STAGE_QUALIFIED>>
    ELSE IF chat.interest_level \in SYNC_INTEREST_LEVELS
         THEN <<"interested", STAGE_INTERESTED>>
    ELSE <<"skip", "not qualified/interested">>

\* extract_contact_id
extract_contact_id(chat) ==
    LET cid == IF chat.dv_candidate_id # Absent THEN chat.dv_candidate_id
               ELSE IF chat.meta_candidate_id # Absent THEN chat.meta_candidate_id
               ELSE EmptyStr
        url == chat.candidate_salesforce_url
    IN  IF Truthy(cid) /\ cid.prefix = "003" /\ cid.len >= 15 THEN cid
        ELSE IF url # NoMarker /\ url.prefix = "003" /\ url.len >= 15 THEN url
        ELSE EmptyStr

\* extract_job_id
extract_job_id(chat) ==
    LET url == chat.job_salesforce_url
        j18 == chat.job_ID_18
    IN  IF url # NoMarker THEN url
        ELSE IF Truthy(j18) /\ j18.prefix = "a0F" THEN j18
        ELSE EmptyStr

\* ------------------------------------------------------------- state

VARIABLES
    env,               \* os.environ: which credential settings are present
    now,               \* the clock, in seconds
    cached_token,      \* salesforce_client._cached_token
    cached_instance,   \* salesforce_client._cached_instance
    token_fetched_at,  \* salesforce_client._token_fetched_at
    cred_obs,          \* what the last credential or client call did
    fn,                \* the function call looked at on its own: inputs and result
    crm,               \* Job Applicant records held by the CRM, per pair
    live,              \* dead_letter.jsonl: NoFile or its lines
    archives,          \* dead_letter_archive_<ts>.jsonl files, by ts
    dl_lock,           \* dead_letter._lock: its holder or "free"
    appended,          \* number of entries written by append so far
    stats,             \* app._stats counters
    pc,                \* per worker: where its handler or call stands
    chat,              \* per worker: the chat being processed
    entries,           \* per worker: retry_failed's entries list
    idx,               \* per worker: retry_failed's position in entries
    results,           \* per worker: retry_failed's results list
    local,             \* per worker: locals of the call in progress
    obs,               \* per worker: what its current request did so far
    delivered          \* webhook deliveries so far

credVars == <<env, fn, now, cached_token, cached_instance, token_fetched_at, cred_obs>>
dlVars == <<live, archives, dl_lock, appended>>
workerVars == <<pc, chat, entries, idx, results, local, obs>>
appVars == <<crm, stats, delivered>>
vars == <<credVars, dlVars, workerVars, appVars>>

\* ---------------------------------------------------- credential resolver

NoToken == [mode |-> "none", serial |-> 0]
NoInstance == "None"
NoTime == 0 - 1

Tok(mode, serial) == [mode |-> mode, serial |-> serial]
Instance(mode) == "https://" \o mode

\* The settings of os.environ that get_salesforce_credentials reads, and
\* whether RETELL_API_KEY is set.
Env(tok, conn, refresh, cid, secret, user) ==
    [access_token |-> tok, connector |-> conn, refresh_token |-> refresh,
     client_id |-> cid, client_secret |-> secret, username |-> user,
     retell_key |-> TRUE]

EnvStatic == Env(TRUE, FALSE, FALSE, FALSE, FALSE, FALSE)
EnvConnector == Env(FALSE, TRUE, TRUE, TRUE, TRUE, FALSE)
EnvRefresh == Env(FALSE, FALSE, TRUE, TRUE, TRUE, TRUE)
EnvRefreshNoSecret == Env(FALSE, FALSE, TRUE, TRUE, FALSE, TRUE)
EnvPassword == Env(FALSE, FALSE, FALSE, TRUE, TRUE, TRUE)
EnvNone == Env(FALSE, FALSE, FALSE, FALSE, FALSE, FALSE)
\* the environment of Spec without the webhook secret
EnvNoKey == [EnvRefresh EXCEPT !.retell_key = FALSE]
Envs == {EnvStatic, EnvConnector, EnvRefresh, EnvRefreshNoSecret, EnvPassword, EnvNone}

\* What the network answers during one resolve: the connector endpoint (a
\* token and an instance, or "error" for an exception or an answer without
\* them), the probe request (200, or "401" for any other answer or an
\* exception), the OAuth token endpoint, and the token it hands out.
NetOutcomes ==
    [connector : {"ok", "error"}, probe : {"200", "401"},
     oauth : {"ok", "fail"}, serial : 1..MaxSerial]

Cache(tok, inst, at) == [token |-> tok, instance |-> inst, fetched_at |-> at]

\* the test of lines 158-160: a cached pair younger than the TTL
CacheHitAgeInclusive(c, t) ==
    /\ c.token # NoToken
    /\ c.fetched_at # NoTime
    /\ (t - c.fetched_at) <= TOKEN_CACHE_TTL

CacheHit(c, t) ==
    /\ c.token # NoToken
    /\ c.fetched_at # NoTime
    /\ (t - c.fetched_at) < TOKEN_CACHE_TTL

Resolved(c, tok, inst, t, nreq) ==
    [cache |-> Cache(tok, inst, t), ok |-> TRUE, token |-> tok, instance |-> inst,
     from_cache |-> FALSE, requests |-> nreq]

ResolveRaised(c, nreq) ==
    [cache |-> c, ok |-> FALSE, token |-> NoToken, instance |-> NoInstance,
     from_cache |-> FALSE, requests |-> nreq]

\* modes 3 and 4 with the password exchange tried after a refresh-token
\* exchange that failed
OAuthModesPasswordFallback(c, t, e, net, nreq) ==
    LET tried == IF e.refresh_token /\ e.client_id /\ e.client_secret THEN 1 ELSE 0
    IN  IF tried = 1 /\ net.oauth = "ok"
            THEN Resolved(c, Tok("oauth", net.serial), Instance("oauth"), t, nreq + 1)
        ELSE IF e.client_id /\ e.username THEN
            IF ~e.client_secret THEN ResolveRaised(c, nreq + tried)
            ELSE IF net.oauth = "ok"
                 THEN Resolved(c, Tok("password", net.serial), Instance("password"), t,
                               nreq + tried + 1)
            ELSE ResolveRaised(c, nreq + tried + 1)
        ELSE ResolveRaised(c, nreq + tried)

\* Modes 3 and 4 (lines 191-215), after nreq requests of the connector mode
OAuthModes(c, t, e, net, nreq) ==
    IF e.refresh_token /\ e.client_id THEN
        \* _refresh_via_oauth
        IF ~e.client_secret THEN ResolveRaised(c, nreq)
        ELSE IF net.oauth = "ok"
             THEN Resolved(c, Tok("oauth", net.serial), Instance("oauth"), t, nreq + 1)
        ELSE ResolveRaised(c, nreq + 1)
    ELSE IF e.client_id /\ e.username THEN
        \* _refresh_via_password
        IF ~e.client_secret THEN ResolveRaised(c, nreq)
        ELSE IF net.oauth = "ok"
             THEN Resolved(c, Tok("password", net.serial), Instance("password"), t, nreq + 1)
        ELSE ResolveRaised(c, nreq + 1)
    ELSE ResolveRaised(c, nreq)

\* get_salesforce_credentials, run under _token_lock from start to end
get_salesforce_credentials(c, t, e, net) ==
    IF CacheHit(c, t) THEN
        [cache |-> c, ok |-> TRUE, token |-> c.token, instance |-> c.instance,
         from_cache |-> TRUE, requests |-> 0]
    ELSE IF e.access_token THEN
        Resolved(c, Tok("static", 0), Instance("static"), t, 0)
    ELSE IF ~e.connector THEN OAuthModes(c, t, e, net, 0)
    ELSE IF net.connector # "ok" THEN OAuthModes(c, t, e, net, 1)
    ELSE IF net.probe = "200"
         THEN Resolved(c, Tok("connector", net.serial), Instance("connector"), t, 2)
    ELSE OAuthModes(c, t, e, net, 2)

\* _invalidate_token_cache: _cached_instance is left as it is
invalidate_token_cache(c) == Cache(NoToken, c.instance, NoTime)

\* sf_api_get / sf_api_post: r1 and r2 are the CRM's answers to the first
\* request and to the retry ("200", "401", or "error" for anything else),
\* cred1 is what the resolve of the first request returned and cred2 what
\* the resolve after _invalidate_token_cache returned; rejected says the
\* last answer of the call was a 401.
ApiResult(c, status, nreq, ninv, nres, last401) ==
    [cache |-> c, status |-> status, requests |-> nreq, invalidations |-> ninv,
     resolves |-> nres, rejected |-> last401]

\* a helper that invalidates and retries after any answer other than 200
ApiRetryOnAnyFailure(cred1, r1, cred2, r2) ==
    IF ~cred1.ok THEN ApiResult(cred1.cache, "raise", 0, 0, 1, FALSE)
    ELSE IF r1 = "200" THEN ApiResult(cred1.cache, "ok", 1, 0, 1, FALSE)
    ELSE IF ~cred2.ok THEN ApiResult(cred2.cache, "raise", 1, 1, 2, FALSE)
    ELSE IF r2 = "200" THEN ApiResult(cred2.cache, "ok", 2, 1, 2, FALSE)
    ELSE ApiResult(cred2.cache, "raise", 2, 1, 2, r2 = "401")

sf_api_request(cred1, r1, cred2, r2) ==
    IF ~cred1.ok THEN ApiResult(cred1.cache, "raise", 0, 0, 1, FALSE)
    ELSE IF r1 = "200" THEN ApiResult(cred1.cache, "ok", 1, 0, 1, FALSE)
    ELSE IF r1 # "401" THEN ApiResult(cred1.cache, "raise", 1, 0, 1, FALSE)
    ELSE IF ~cred2.ok THEN ApiResult(cred2.cache, "raise", 1, 1, 2, FALSE)
    ELSE IF r2 = "200" THEN ApiResult(cred2.cache, "ok", 2, 1, 2, FALSE)
    ELSE ApiResult(cred2.cache, "raise", 2, 1, 2, r2 = "401")

CurCache == Cache(cached_token, cached_instance, token_fetched_at)

SetCache(c) ==
    /\ cached_token' = c.token
    /\ cached_instance' = c.instance
    /\ token_fetched_at' = c.fetched_at

\* -------------------------------------------------------- dead-letter store

\* dict.get(key, default) on a result or record dict
Get(d, key, default) == IF key \in DOMAIN d THEN d[key] ELSE default

NoFile == [exists |-> FALSE, lines |-> <<>>]
File(lines) == [exists |-> TRUE, lines |-> lines]

\* str(error): free text that nothing reads back, kept as one value
ErrorText(error) == "error text"

\* an entry whose stored payload lost the analysis data of the chat
DLEntryPayloadAltered(c, record, error, seq, t) ==
    [seq |-> seq, timestamp |-> t,
     chat_id |-> c.chat_id,
     contact_id |-> Get(record, "contact_id", EmptyStr),
     job_id |-> Get(record, "job_id", EmptyStr),
     stage |-> Get(record, "stage", ""),
     tier |-> Get(record, "tier", ""),
     error |-> ErrorText(error),
     chat_payload |-> [c EXCEPT !.has_custom = FALSE]]

\* the entry dict that append builds; seq numbers the append calls so that
\* two entries for the same chat can be told apart
DLEntry(c, record, error, seq, t) ==
    [seq |-> seq, timestamp |-> t,
     chat_id |-> c.chat_id,
     contact_id |-> Get(record, "contact_id", EmptyStr),
     job_id |-> Get(record, "job_id", EmptyStr),
     stage |-> Get(record, "stage", ""),
     tier |-> Get(record, "tier", ""),
     error |-> ErrorText(error),
     chat_payload |-> c]

\* json.dumps(entry) + '\n'
JsonLine(entry) == [kind |-> "json", value |-> entry]

\* open(DEAD_LETTER_FILE, 'a') and f.write: creates the file when missing
AppendedFile(f, line) == File(Append(f.lines, line))

\* a line of white space only, and a line json.loads refuses, such as the
\* torn last line of a write cut short
BlankLine == [kind |-> "blank"]
TornLine == [kind |-> "malformed"]

\* a reader that gives up at the first line it cannot parse
ParseLinesUntilDamage(lines) ==
    LET bad == {i \in DOMAIN lines : lines[i].kind = "malformed"}
        n == IF bad = {} THEN Len(lines)
             ELSE (CHOOSE i \in bad : \A j \in bad : i <= j) - 1
        kept == SelectSeq(SubSeq(lines, 1, n), LAMBDA l : l.kind = "json")
    IN  [i \in 1..Len(kept) |-> kept[i].value]

\* read_all's loop: the parsed lines, in file order
RECURSIVE ParseLines(_)
ParseLines(lines) ==
    IF lines = <<>> THEN <<>>
    ELSE IF Head(lines).kind = "json"
         THEN <<Head(lines).value>> \o ParseLines(Tail(lines))
    ELSE ParseLines(Tail(lines))

\* count's and clear's loop: the lines that are not blank
CountLines(lines) == Cardinality({i \in DOMAIN lines : lines[i].kind # "blank"})

\* strftime('%Y%m%d_%H%M%S'): the archive name has the clock's second in it
ArchiveName(t) == t

\* shutil.move(DEAD_LETTER_FILE, archive_path), a rename: a file already at
\* archive_path is replaced
MovedCopyKeepsSource(f) == f

LiveAfterMove(f) == NoFile

ArchivesAfterMove(as, f, t) ==
    {a \in as : a.name # ArchiveName(t)} \cup {[name |-> ArchiveName(t), lines |-> f.lines]}

\* ------------------------------------------------------------------- CRM

\* the (person, job) pair as the CRM keys its Job Applicant records
PairOf(contact_id, job_id) == <<First15(contact_id), First15(job_id)>>
PairKeys == {PairOf(extract_contact_id(c), extract_job_id(c)) :
                c \in {x \in Chats : /\ classify_chat(x)[1] # "skip"
                                     /\ Truthy(extract_contact_id(x))
                                     /\ Truthy(extract_job_id(x))}}

\* an id as the CRM returns it, in its 15- or 18-character form
InForm(id, form) == [id EXCEPT !.len = form]
Forms == {15, 18}

\* the records the SOQL query of line 109 selects for one contact id
QueryRecords(records, contact_id, form) ==
    {[cc |-> InForm(p[1], form), jj |-> InForm(p[2], form)] :
        p \in {q \in DOMAIN records : records[q] > 0 /\ q[1] = First15(contact_id)}}

\* lines 112-116 of check_existing_applicants with the ids compared as returned
ExistingPairsRaw(records) ==
    {<<r.cc, r.jj>> : r \in {x \in records : Truthy(x.cc) /\ Truthy(x.jj)}}

\* lines 112-116 of check_existing_applicants: the pairs of one batch
ExistingPairs(records) ==
    {<<First15(r.cc), First15(r.jj)>> : r \in {x \in records : Truthy(x.cc) /\ Truthy(x.jj)}}

\* a dedup that takes a failed query to mean that every pair exists
CheckExistingFailClosed(query_status, records) ==
    IF query_status = "ok" THEN ExistingPairs(records) ELSE PairKeys

\* check_existing_applicants for one contact id: a failed query adds nothing
check_existing_applicants(query_status, records) ==
    IF query_status = "ok" THEN ExistingPairs(records) ELSE {}

\* what the CRM or the network answers to one create POST
CreateOutcomes ==
    {"success", "failure", "malformed", "401", "http_error", "conn_error",
     "timeout", "timeout_committed"}

\* a pass that also catches a connection error and goes round again
CreateAttemptRetriesConnError(c, t, e, net, attempt, o) ==
    LET cred == IF attempt = 0 THEN get_salesforce_credentials(c, t, e, net)
                ELSE [cache |-> c, ok |-> TRUE]
        again == get_salesforce_credentials(cred.cache, t, e, net)
        R(cache, kind, error, posted) ==
            [cache |-> cache, kind |-> kind, error |-> error, posted |-> posted,
             committed |-> posted /\ o \in {"success", "timeout_committed"},
             rejected |-> posted /\ o = "401"]
    IN  IF ~cred.ok THEN R(cred.cache, "exception", "RuntimeError", FALSE)
        ELSE IF o \in {"timeout", "timeout_committed", "conn_error"} THEN
            IF attempt < MaxAttempts - 1 THEN
                IF again.ok THEN R(again.cache, "retry", "", TRUE)
                ELSE R(again.cache, "exception", "RuntimeError", TRUE)
            ELSE R(cred.cache, "failure", "timeout after 3 attempts", TRUE)
        ELSE IF o = "conn_error" THEN R(cred.cache, "exception", "ConnectionError", TRUE)
        ELSE IF o = "malformed" THEN R(cred.cache, "exception", "JSONDecodeError", TRUE)
        ELSE IF o = "success" THEN R(cred.cache, "success", "", TRUE)
        ELSE IF o = "failure" THEN R(cred.cache, "failure", "errors", TRUE)
        ELSE IF o = "401" THEN R(cred.cache, "failure", "HTTP 401", TRUE)
        ELSE R(cred.cache, "failure", "HTTP 500", TRUE)

\* a pass that takes any 200 answer for a created record
CreateAttemptIgnoresFlag(c, t, e, net, attempt, o) ==
    LET cred == IF attempt = 0 THEN get_salesforce_credentials(c, t, e, net)
                ELSE [cache |-> c, ok |-> TRUE]
        again == get_salesforce_credentials(cred.cache, t, e, net)
        R(cache, kind, error, posted) ==
            [cache |-> cache, kind |-> kind, error |-> error, posted |-> posted,
             committed |-> posted /\ o \in {"success", "timeout_committed"},
             rejected |-> posted /\ o = "401"]
    IN  IF ~cred.ok THEN R(cred.cache, "exception", "RuntimeError", FALSE)
        ELSE IF o \in {"timeout", "timeout_committed"} THEN
            IF attempt < MaxAttempts - 1 THEN
                IF again.ok THEN R(again.cache, "retry", "", TRUE)
                ELSE R(again.cache, "exception", "RuntimeError", TRUE)
            ELSE R(cred.cache, "failure", "timeout after 3 attempts", TRUE)
        ELSE IF o = "conn_error" THEN R(cred.cache, "exception", "ConnectionError", TRUE)
        ELSE IF o = "malformed" THEN R(cred.cache, "exception", "JSONDecodeError", TRUE)
        ELSE IF o = "success" THEN R(cred.cache, "success", "", TRUE)
        ELSE IF o = "failure" THEN R(cred.cache, "success", "", TRUE)
        ELSE IF o = "401" THEN R(cred.cache, "failure", "HTTP 401", TRUE)
        ELSE R(cred.cache, "failure", "HTTP 500", TRUE)

\* one pass of the loop of create_job_applicant (lines 151-167) and, when the
\* loop ends, lines 169-181; attempt counts from 0; the call of line 132 is
\* part of attempt 0
create_attempt(c, t, e, net, attempt, o) ==
    LET cred == IF attempt = 0 THEN get_salesforce_credentials(c, t, e, net)
                ELSE [cache |-> c, ok |-> TRUE]
        again == get_salesforce_credentials(cred.cache, t, e, net)
        R(cache, kind, error, posted) ==
            [cache |-> cache, kind |-> kind, error |-> error, posted |-> posted,
             committed |-> posted /\ o \in {"success", "timeout_committed"},
             rejected |-> posted /\ o = "401"]
    IN  IF ~cred.ok THEN R(cred.cache, "exception", "RuntimeError", FALSE)
        ELSE IF o \in {"timeout", "timeout_committed"} THEN
            IF attempt < MaxAttempts - 1 THEN
                IF again.ok THEN R(again.cache, "retry", "", TRUE)
                ELSE R(again.cache, "exception", "RuntimeError", TRUE)
            ELSE R(cred.cache, "failure", "timeout after 3 attempts", TRUE)
        ELSE IF o = "conn_error" THEN R(cred.cache, "exception", "ConnectionError", TRUE)
        ELSE IF o = "malformed" THEN R(cred.cache, "exception", "JSONDecodeError", TRUE)
        ELSE IF o = "success" THEN R(cred.cache, "success", "", TRUE)
        ELSE IF o = "failure" THEN R(cred.cache, "failure", "errors", TRUE)
        ELSE IF o = "401" THEN R(cred.cache, "failure", "HTTP 401", TRUE)
        ELSE R(cred.cache, "failure", "HTTP 500", TRUE)

\* create_job_applicant from pass `attempt` on: outs[k] is what the CRM or the
\* network answers to the k-th POST; the result says how the call ended and
\* counts its POSTs, its calls of get_salesforce_credentials (line 132 and
\* line 163), its pauses (line 165) and the records the CRM committed
RECURSIVE create_job_applicant(_, _, _, _, _, _)
create_job_applicant(c, t, e, net, outs, attempt) ==
    LET o == outs[attempt + 1]
        r == create_attempt(c, t, e, net, attempt, o)
        timed == r.posted /\ o \in {"timeout", "timeout_committed"}
        posts == IF r.posted THEN 1 ELSE 0
        resolves == (IF attempt = 0 THEN 1 ELSE 0)
                    + (IF timed /\ attempt < MaxAttempts - 1 THEN 1 ELSE 0)
        commits == IF r.committed THEN 1 ELSE 0
    IN  IF r.kind = "retry"
        THEN LET rest == create_job_applicant(r.cache, t, e, net, outs, attempt + 1)
             IN  [rest EXCEPT !.posts = @ + posts, !.resolves = @ + resolves,
                              !.pauses = @ + 1, !.commits = @ + commits]
        ELSE [kind |-> r.kind, error |-> r.error, cache |-> r.cache, posts |-> posts,
              resolves |-> resolves, pauses |-> 0, commits |-> commits]

\* ---------------------------------------------------------- orchestrator

\* the steps before the dedup query without the test for an empty job id
ProcessStartNoJobGate(c) ==
    LET cl == classify_chat(c)
        contact_id == extract_contact_id(c)
        job_id == extract_job_id(c)
    IN  IF cl[1] = "skip"
            THEN [chat_id |-> c.chat_id, action |-> "skip", detail |-> cl[2]]
        ELSE IF ~Truthy(contact_id)
            THEN [chat_id |-> c.chat_id, action |-> "skip",
                  detail |-> "no contact ID in chat data",
                  contact_id |-> contact_id, job_id |-> job_id]
        ELSE [chat_id |-> c.chat_id, action |-> "continue", detail |-> cl[2],
              contact_id |-> contact_id, job_id |-> job_id]

\* process_chat_webhook up to the dedup query (lines 194-222): the result
\* it returns at once, or the result so far with action "continue"
process_start(c) ==
    LET cl == classify_chat(c)
        contact_id == extract_contact_id(c)
        job_id == extract_job_id(c)
    IN  IF cl[1] = "skip"
            THEN [chat_id |-> c.chat_id, action |-> "skip", detail |-> cl[2]]
        ELSE IF ~Truthy(contact_id)
            THEN [chat_id |-> c.chat_id, action |-> "skip",
                  detail |-> "no contact ID in chat data",
                  contact_id |-> contact_id, job_id |-> job_id]
        ELSE IF ~Truthy(job_id)
            THEN [chat_id |-> c.chat_id, action |-> "skip",
                  detail |-> "no job ID in chat data",
                  contact_id |-> contact_id, job_id |-> job_id]
        ELSE [chat_id |-> c.chat_id, action |-> "continue", detail |-> cl[2],
              contact_id |-> contact_id, job_id |-> job_id]

\* lines 226-231: the result when the pair is among the existing ones
process_duplicate(c) ==
    [chat_id |-> c.chat_id, action |-> "duplicate",
     detail |-> "job applicant already exists in SF",
     contact_id |-> extract_contact_id(c), job_id |-> extract_job_id(c)]

\* lines 249-267: the result after create_job_applicant returned
process_created(c, success, error) ==
    [chat_id |-> c.chat_id,
     action |-> IF success THEN "created" ELSE "error",
     detail |-> IF success THEN "Job Applicant created" ELSE error,
     contact_id |-> extract_contact_id(c), job_id |-> extract_job_id(c),
     sf_result |-> IF success THEN "applicant_id" ELSE error]

\* an orchestrator that tells of created records only
NotifyCreatedOnly(c, success, error) ==
    IF success
    THEN <<[event_type |-> "created",
            details |-> [chat_id |-> c.chat_id, applicant_id |-> "applicant_id"]]>>
    ELSE <<>>

\* lines 252-265: the calls of notify_fn in a run whose create_job_applicant
\* returned, each with its event type and the details it is handed
notify_calls(c, success, error) ==
    IF success
    THEN <<[event_type |-> "created",
            details |-> [chat_id |-> c.chat_id, applicant_id |-> "applicant_id"]]>>
    ELSE <<[event_type |-> "error",
            details |-> [chat_id |-> c.chat_id, error |-> ErrorText(error)]]>>

\* ------------------------------------------------------------------ app.py

\* _record_event: the counters it moves
record_event(st, event_type) ==
    LET st1 == [st EXCEPT !.webhooks_received = @ + 1]
    IN  IF event_type = "created" THEN [st1 EXCEPT !.created = @ + 1]
        ELSE IF event_type = "duplicate" THEN [st1 EXCEPT !.duplicates = @ + 1]
        ELSE IF event_type = "skip" THEN [st1 EXCEPT !.skipped = @ + 1]
        ELSE IF event_type = "error" THEN [st1 EXCEPT !.errors = @ + 1]
        ELSE st1

\* verify_retell_signature: the header is empty, the HMAC of the body under
\* the shared secret ("good"), another value ("bad"), or a value with a
\* character outside ASCII, which hmac.compare_digest refuses with a
\* TypeError; key_set says RETELL_API_KEY is not empty
Signatures == {"", "good", "bad", "non_ascii"}

\* a verification that accepts any header that is not empty
VerifyPresenceOnly(key_set, signature) ==
    IF ~key_set THEN "valid"
    ELSE IF signature = "" THEN "invalid"
    ELSE "valid"

verify_retell_signature(key_set, signature) ==
    IF ~key_set THEN "valid"
    ELSE IF signature = "" THEN "invalid"
    ELSE IF signature = "non_ascii" THEN "TypeError"
    ELSE IF signature = "good" THEN "valid"
    ELSE "invalid"

\* the request bodies: not JSON, another event type, or a chat_analyzed event
Bodies ==
    {[kind |-> "bad_json", data |-> ChatO], [kind |-> "other_event", data |-> ChatO]}
    \cup {[kind |-> "chat_analyzed", data |-> c] : c \in Chats}

NoChat == [chat_id |-> "none"]
IdleLocal == [attempt |-> 0, n |-> 0, ts |-> 0]
IdleObs ==
    [resp |-> 0, outcome |-> "none", dedup_hit |-> FALSE,
     op |-> "none", error |-> "none", ret |-> 0, sig |-> "none", asked |-> FALSE,
     notified |-> <<>>]

AppendOutcomes == {"ok", "OSError"}

\* webhook_retell from the return of process_chat_webhook on (lines 160-175):
\* `raised` says the orchestrator raised, a1 and a2 are what the file system
\* does to the append of line 167 and to the one of line 172 ("ok", or
\* "OSError" with nothing written)
WebhookTail(st, lv, n, c, result, raised, a1, a2, t) ==
    LET bare == [chat_id |-> c.chat_id]
        E(st2, lv2, n2, resp, outcome) ==
            [stats |-> st2, live |-> lv2, appended |-> n2, resp |-> resp,
             outcome |-> outcome]
        Fallback(st1, outcome, text) ==
            LET st2 == record_event(st1, "error")
                e2 == DLEntry(c, bare, text, n + 1, t)
            IN  IF a2 = "ok"
                THEN E(st2, AppendedFile(lv, JsonLine(e2)), n + 1, 204, outcome)
                ELSE E(st2, lv, n, 500, outcome)
    IN  IF raised THEN Fallback(st, "exception", result.detail)
        ELSE IF result.action = "error" THEN
            LET st1 == record_event(st, "error")
                e1 == DLEntry(c, result, result.detail, n + 1, t)
            IN  IF a1 = "ok"
                THEN E(st1, AppendedFile(lv, JsonLine(e1)), n + 1, 204, "error")
                ELSE Fallback(st1, "error", "OSError")
        ELSE E(record_event(st, result.action), lv, n, 204, result.action)

\* the ways the tail of webhook_retell can go for one result
WebhookTails(st, lv, n, c, result, raised, t) ==
    {WebhookTail(st, lv, n, c, result, raised, a1, a2, t) : a1, a2 \in AppendOutcomes}

\* the orchestrator run of worker w's webhook ended: the handler's tail runs
\* and reaches its return; base is obs with what the step saw so far
WebhookFinish(w, c, result, raised, base) ==
    \E x \in WebhookTails(stats, live, appended, c, result, raised, now) :
        /\ stats' = x.stats
        /\ live' = x.live
        /\ appended' = x.appended
        /\ obs' = [base EXCEPT ![w].resp = x.resp, ![w].outcome = x.outcome]
        /\ pc' = [pc EXCEPT ![w] = "respond"]
        /\ UNCHANGED <<idx, results>>

\* a replay that archives the store after each entry it ran
RetryEntryDoneThenClear(w, c, result, raised, base) ==
    /\ stats' = IF raised THEN stats ELSE record_event(stats, result.action)
    /\ results' = [results EXCEPT ![w] = Append(@,
                      [chat_id |-> entries[w][idx[w]].chat_id,
                       action |-> IF raised THEN "error" ELSE result.action])]
    /\ obs' = [base EXCEPT ![w].outcome = IF raised THEN "exception" ELSE result.action]
    /\ idx' = [idx EXCEPT ![w] = @ + 1]
    /\ pc' = [pc EXCEPT ![w] = "r_clear"]
    /\ UNCHANGED <<live, appended>>

\* retry_failed, lines 264-275: the run on entries[idx] ended; the loop moves on
RetryEntryDone(w, c, result, raised, base) ==
    /\ stats' = IF raised THEN stats ELSE record_event(stats, result.action)
    /\ results' = [results EXCEPT ![w] = Append(@,
                      [chat_id |-> entries[w][idx[w]].chat_id,
                       action |-> IF raised THEN "error" ELSE result.action])]
    /\ obs' = [base EXCEPT ![w].outcome = IF raised THEN "exception" ELSE result.action]
    /\ idx' = [idx EXCEPT ![w] = @ + 1]
    /\ pc' = [pc EXCEPT ![w] = IF idx[w] < Len(entries[w]) THEN "r_dedup" ELSE "r_clear"]
    /\ UNCHANGED <<live, appended>>

\* the nets a resolve can meet under the environment of Spec
PipelineNets ==
    {n \in NetOutcomes : n.connector = "error" /\ n.probe = "401" /\ n.serial = 1}

Responses == {"200", "401", "error"}

\* the ways one sf_api_get / sf_api_post call can go when the network
\* answers the resolves as one of nets
ApiCallsOver(nets, c, t, e) ==
    UNION {{sf_api_request(cred1, r1, cred2, r2) :
                cred2 \in {get_salesforce_credentials(
                              invalidate_token_cache(cred1.cache), t, e, n) : n \in nets},
                r2 \in Responses} :
            cred1 \in {get_salesforce_credentials(c, t, e, n) : n \in nets},
            r1 \in Responses}

ApiCalls(c, t, e) == ApiCallsOver(PipelineNets, c, t, e)

\* the ways one pass of create_job_applicant's loop can go
CreateAttempts(c, t, e, attempt) ==
    {create_attempt(c, t, e, net, attempt, o) : net \in PipelineNets, o \in CreateOutcomes}

\* a request goes to the first worker that is free
Accepts(w) ==
    /\ pc[w] = "idle"
    /\ \A i, j \in DOMAIN WorkerOrder :
        (i < j /\ WorkerOrder[j] = w) => pc[WorkerOrder[i]] # "idle"

\* webhook_retell, lines 127-158 and the orchestrator up to its dedup query
WebhookReceive(w) ==
    /\ Accepts(w)
    /\ delivered < MaxDeliveries
    /\ delivered' = delivered + 1
    /\ \E signature \in Signatures, body \in Bodies :
        LET start == process_start(body.data)
            fresh == [obs EXCEPT ![w] = [IdleObs EXCEPT !.sig = signature]]
            verdict == verify_retell_signature(env.retell_key, signature)
            Return(code) ==
                /\ obs' = [fresh EXCEPT ![w].resp = code]
                /\ pc' = [pc EXCEPT ![w] = "respond"]
                /\ UNCHANGED <<chat, stats, live, appended, idx, results>>
        IN  IF verdict = "TypeError" THEN Return(500)
            ELSE IF verdict = "invalid" THEN Return(401)
            ELSE IF body.kind = "bad_json" THEN Return(400)
            ELSE IF body.kind # "chat_analyzed" THEN Return(204)
            ELSE /\ chat' = [chat EXCEPT ![w] = body.data]
                 /\ IF start.action = "skip"
                    THEN WebhookFinish(w, body.data, start, FALSE, fresh)
                    ELSE /\ pc' = [pc EXCEPT ![w] = "dedup"]
                         /\ obs' = fresh
                         /\ UNCHANGED <<stats, live, appended, idx, results>>
    /\ UNCHANGED <<credVars, crm, archives, dl_lock, entries, local>>

\* step 3 of process_chat_webhook (lines 224-231), run for a webhook (pc
\* "dedup") or for the entry a replay has reached (pc "r_dedup", which first
\* runs the steps before the query on the stored chat)
Dedup(w) ==
    /\ pc[w] \in {"dedup", "r_dedup"}
    /\ LET c == IF pc[w] = "dedup" THEN chat[w] ELSE entries[w][idx[w]].chat_payload
           start == process_start(c)
           Finish(result, base) ==
               IF pc[w] = "dedup" THEN WebhookFinish(w, c, result, FALSE, base)
               ELSE RetryEntryDone(w, c, result, FALSE, base)
           begun == [obs EXCEPT ![w].dedup_hit = FALSE, ![w].outcome = "none",
                                ![w].asked = FALSE, ![w].notified = <<>>]
       IN  /\ chat' = [chat EXCEPT ![w] = c]
           /\ IF start.action = "skip"
              THEN /\ Finish(start, begun)
                   /\ UNCHANGED <<credVars, local>>
              ELSE \E q \in ApiCalls(CurCache, now, env), form \in Forms :
                    LET records == QueryRecords(crm, start.contact_id, form)
                        existing == check_existing_applicants(q.status, records)
                        pair == <<First15(start.contact_id), First15(start.job_id)>>
                        hit == q.status = "ok"
                               /\ crm[PairOf(start.contact_id, start.job_id)] > 0
                        seen == [begun EXCEPT ![w].dedup_hit = hit, ![w].asked = TRUE]
                    IN  /\ SetCache(q.cache)
                        /\ UNCHANGED <<env, fn, now, cred_obs>>
                        /\ IF pair \in existing
                           THEN /\ Finish(process_duplicate(c), seen)
                                /\ UNCHANGED local
                           ELSE /\ pc' = [pc EXCEPT ![w] =
                                            IF pc[w] = "dedup" THEN "create" ELSE "r_create"]
                                /\ local' = [local EXCEPT ![w].attempt = 0]
                                /\ obs' = seen
                                /\ UNCHANGED <<stats, live, appended, idx, results>>
    /\ UNCHANGED <<crm, archives, dl_lock, entries, delivered>>

\* a CRM that keeps one record per pair however often the pair is posted
CommittedOncePerPair(records, pair) ==
    [records EXCEPT ![pair] = IF @ = 0 THEN 1 ELSE @]

\* a record more for the pair; RecordCap and above are counted as RecordCap
Committed(records, pair) ==
    [records EXCEPT ![pair] = IF @ < RecordCap THEN @ + 1 ELSE @]

\* one pass of the loop of create_job_applicant for worker w and, when the
\* call returns or raises, the rest of process_chat_webhook and of the handler
Create(w) ==
    /\ pc[w] \in {"create", "r_create"}
    /\ \E r \in CreateAttempts(CurCache, now, env, local[w].attempt) :
        LET c == chat[w]
            pair == PairOf(extract_contact_id(c), extract_job_id(c))
            result == IF r.kind = "exception"
                      THEN [chat_id |-> c.chat_id, detail |-> r.error]
                      ELSE process_created(c, r.kind = "success", r.error)
            told == IF r.kind = "exception" THEN obs
                    ELSE [obs EXCEPT ![w].notified =
                              notify_calls(c, r.kind = "success", r.error)]
        IN  /\ SetCache(r.cache)
            /\ crm' = IF r.committed THEN Committed(crm, pair) ELSE crm
            /\ IF r.kind = "retry"
               THEN /\ local' = [local EXCEPT ![w].attempt = @ + 1]
                    /\ UNCHANGED <<pc, stats, live, appended, idx, results, obs>>
               ELSE /\ IF pc[w] = "create"
                       THEN WebhookFinish(w, c, result, r.kind = "exception", told)
                       ELSE RetryEntryDone(w, c, result, r.kind = "exception", told)
                    /\ local' = [local EXCEPT ![w] = IdleLocal]
    /\ UNCHANGED <<env, fn, now, cred_obs, archives, dl_lock, chat, entries, delivered>>

\* retry_failed, lines 250-252: read_all and the test for an empty list
RetryStart(w) ==
    /\ Accepts(w)
    /\ LET read == IF live.exists THEN ParseLines(live.lines) ELSE <<>>
       IN  /\ read # <<>>
           /\ entries' = [entries EXCEPT ![w] = read]
           /\ idx' = [idx EXCEPT ![w] = 1]
           /\ results' = [results EXCEPT ![w] = <<>>]
           /\ pc' = [pc EXCEPT ![w] = "r_dedup"]
           /\ obs' = [obs EXCEPT ![w] = IdleObs]
    /\ UNCHANGED <<credVars, dlVars, appVars, chat, local>>

\* retry_failed, lines 277-289: clear archives the live file and the handler
\* reaches its return
RetryClear(w) ==
    /\ pc[w] = "r_clear"
    /\ IF live.exists /\ CountLines(live.lines) > 0
       THEN /\ archives' = ArchivesAfterMove(archives, live, now)
            /\ live' = LiveAfterMove(live)
       ELSE UNCHANGED <<live, archives>>
    /\ pc' = [pc EXCEPT ![w] = "respond"]
    /\ obs' = [obs EXCEPT ![w].resp = 200]
    /\ UNCHANGED <<credVars, appVars, dl_lock, appended, chat, entries, idx, results, local>>

\* the response leaves; the worker is free for the next request
Respond(w) ==
    /\ pc[w] = "respond"
    /\ pc' = [pc EXCEPT ![w] = "idle"]
    /\ chat' = [chat EXCEPT ![w] = NoChat]
    /\ entries' = [entries EXCEPT ![w] = <<>>]
    /\ idx' = [idx EXCEPT ![w] = 0]
    /\ results' = [results EXCEPT ![w] = <<>>]
    /\ obs' = [obs EXCEPT ![w] = IdleObs]
    /\ UNCHANGED <<credVars, dlVars, appVars, local>>

\* the clock advances; now counts the seconds since the service started
Tick ==
    /\ now + TickSeconds <= MaxClock
    /\ now' = now + TickSeconds
    /\ UNCHANGED <<env, fn, cached_token, cached_instance, token_fetched_at, cred_obs,
                   dlVars, workerVars, appVars>>

\* no function call made yet
NoCall == [op |-> "none"]

ZeroStats == [webhooks_received |-> 0, created |-> 0, duplicates |-> 0,
              skipped |-> 0, errors |-> 0]
IdleCredObs ==
    [op |-> "none", at |-> 0, had_pair |-> FALSE, age |-> 0, before |-> <<NoToken, NoInstance>>,
     ok |-> FALSE, pair |-> <<NoToken, NoInstance>>, from_cache |-> FALSE,
     requests |-> 0, rejected |-> FALSE]

\* the state after the modules are loaded, under the environment e; the CRM
\* may already hold a Job Applicant record for a pair
InitWith(e) ==
    /\ env = e
    /\ fn = NoCall
    /\ now = 0
    /\ cached_token = NoToken
    /\ cached_instance = NoInstance
    /\ token_fetched_at = NoTime
    /\ cred_obs = IdleCredObs
    /\ crm \in [PairKeys -> {0, 1}]
    /\ live = NoFile
    /\ archives = {}
    /\ dl_lock = "free"
    /\ appended = 0
    /\ stats = ZeroStats
    /\ pc = [w \in Workers |-> "idle"]
    /\ chat = [w \in Workers |-> NoChat]
    /\ entries = [w \in Workers |-> <<>>]
    /\ idx = [w \in Workers |-> 0]
    /\ results = [w \in Workers |-> <<>>]
    /\ local = [w \in Workers |-> IdleLocal]
    /\ obs = [w \in Workers |-> IdleObs]
    /\ delivered = 0

\* ----------------------------------------------- the service: Spec
Init == InitWith(EnvRefresh)

Next ==
    \/ \E w \in Workers : WebhookReceive(w)
    \/ \E w \in Workers : Dedup(w)
    \/ \E w \in Workers : Create(w)
    \/ \E w \in Workers : RetryStart(w)
    \/ \E w \in Workers : RetryClear(w)
    \/ \E w \in Workers : Respond(w)

Spec == Init /\ [][Next]_vars

\* ------------------------------------ the dead-letter store alone: SpecDL
\* Threads call append, read_all, count and clear; a step is what a call does
\* between two points where another thread can run: the os.path.exists test
\* outside the lock, taking the lock, the work under the lock.

DLOps == {"read_all", "count", "clear"}

\* the record a failed webhook hands to append
FailedRecord == [chat_id |-> ChatQ.chat_id]

\* append, lines 25-34: the entry is built, with the time of the call
AppendCall(w) ==
    /\ pc[w] = "idle"
    /\ appended + Cardinality({v \in Workers : pc[v] \in {"a_lock", "a_write"}}) < MaxAppends
    /\ pc' = [pc EXCEPT ![w] = "a_lock"]
    /\ local' = [local EXCEPT ![w].ts = now]
    /\ obs' = [obs EXCEPT ![w] = [IdleObs EXCEPT !.op = "append"]]
    /\ UNCHANGED <<credVars, dlVars, appVars, chat, entries, idx, results>>

\* append, line 36: with _lock
AppendLock(w) ==
    /\ pc[w] = "a_lock"
    /\ dl_lock = "free"
    /\ dl_lock' = w
    /\ pc' = [pc EXCEPT ![w] = "a_write"]
    /\ UNCHANGED <<credVars, live, archives, appended, appVars, chat, entries, idx,
                   results, local, obs>>

\* append, lines 37-38: the line is written and the lock released
AppendWrite(w) ==
    /\ pc[w] = "a_write"
    /\ live' = AppendedFile(live,
                   JsonLine(DLEntry(ChatQ, FailedRecord, "error", appended + 1, local[w].ts)))
    /\ appended' = appended + 1
    /\ dl_lock' = "free"
    /\ pc' = [pc EXCEPT ![w] = "idle"]
    /\ local' = [local EXCEPT ![w] = IdleLocal]
    /\ UNCHANGED <<credVars, archives, appVars, chat, entries, idx, results, obs>>

\* read_all, count and clear, lines 48-49, 65-66 and 83-84: the test of
\* os.path.exists, made before the lock is taken
ExistsCheck(w) ==
    /\ pc[w] = "idle"
    /\ \E op \in DLOps :
        /\ obs' = [obs EXCEPT ![w] = [IdleObs EXCEPT !.op = op]]
        /\ pc' = [pc EXCEPT ![w] = IF live.exists THEN "x_lock" ELSE "idle"]
    /\ UNCHANGED <<credVars, dlVars, appVars, chat, entries, idx, results, local>>

\* with _lock, then open(DEAD_LETTER_FILE, 'r'): a missing file raises
\* FileNotFoundError, which leaves the with block and the call
OpenUnderLock(w) ==
    /\ pc[w] = "x_lock"
    /\ dl_lock = "free"
    /\ IF live.exists
       THEN /\ dl_lock' = w
            /\ pc' = [pc EXCEPT ![w] = "x_read"]
            /\ obs' = obs
       ELSE /\ dl_lock' = "free"
            /\ pc' = [pc EXCEPT ![w] = "idle"]
            /\ obs' = [obs EXCEPT ![w].error = "FileNotFoundError"]
    /\ UNCHANGED <<credVars, live, archives, appended, appVars, chat, entries, idx,
                   results, local>>

\* the loop over the lines: read_all and count return, clear returns when
\* it counted no entry and else goes on to the move
ReadLines(w) ==
    /\ pc[w] = "x_read"
    /\ LET n == IF obs[w].op = "read_all" THEN Len(ParseLines(live.lines))
                ELSE CountLines(live.lines)
           moves == obs[w].op = "clear" /\ n > 0
       IN  /\ local' = [local EXCEPT ![w].n = IF moves THEN n ELSE 0]
           /\ obs' = [obs EXCEPT ![w].ret = IF moves THEN 0 ELSE n]
           /\ pc' = [pc EXCEPT ![w] = IF moves THEN "c_move" ELSE "idle"]
           /\ dl_lock' = IF moves THEN w ELSE "free"
    /\ UNCHANGED <<credVars, live, archives, appended, appVars, chat, entries, idx, results>>

\* clear, lines 98-102: the live file is moved to the archive path named
\* after the clock's second, the lock is released and clear returns
ClearMove(w) ==
    /\ pc[w] = "c_move"
    /\ archives' = ArchivesAfterMove(archives, live, now)
    /\ live' = LiveAfterMove(live)
    /\ dl_lock' = "free"
    /\ obs' = [obs EXCEPT ![w].ret = local[w].n]
    /\ local' = [local EXCEPT ![w] = IdleLocal]
    /\ pc' = [pc EXCEPT ![w] = "idle"]
    /\ UNCHANGED <<credVars, appended, appVars, chat, entries, idx, results>>

InitDL == InitWith(EnvRefresh) /\ crm = [p \in PairKeys |-> 0]

NextDL ==
    \/ \E w \in Workers : AppendCall(w)
    \/ \E w \in Workers : AppendLock(w)
    \/ \E w \in Workers : AppendWrite(w)
    \/ \E w \in Workers : ExistsCheck(w)
    \/ \E w \in Workers : OpenUnderLock(w)
    \/ \E w \in Workers : ReadLines(w)
    \/ \E w \in Workers : ClearMove(w)
    \/ Tick

SpecDL == InitDL /\ [][NextDL]_vars

\* --------------------------------------- the CRM client alone: SpecCred
\* Threads call get_salesforce_credentials, the request helpers and
\* create_job_applicant while the clock advances; cred_obs keeps what the
\* last call met and did.

\* the thread whose create_job_applicant call SpecCred follows
CredWorker == "w1"

\* get_salesforce_credentials
Resolve ==
    /\ \E r \in {get_salesforce_credentials(CurCache, now, env, net) : net \in NetOutcomes} :
            /\ SetCache(r.cache)
            /\ cred_obs' =
                 [op |-> "resolve", at |-> now,
                  had_pair |-> cached_token # NoToken /\ token_fetched_at # NoTime,
                  age |-> IF token_fetched_at # NoTime THEN now - token_fetched_at ELSE 0,
                  before |-> <<cached_token, cached_instance>>,
                  ok |-> r.ok, pair |-> <<r.token, r.instance>>,
                  from_cache |-> r.from_cache, requests |-> r.requests,
                  rejected |-> FALSE]
    /\ UNCHANGED <<env, fn, now, dlVars, workerVars, appVars>>

\* _invalidate_token_cache
Invalidate ==
    /\ SetCache(invalidate_token_cache(CurCache))
    /\ cred_obs' = [IdleCredObs EXCEPT !.op = "invalidate", !.at = now]
    /\ UNCHANGED <<env, fn, now, dlVars, workerVars, appVars>>

\* sf_api_get, sf_api_post, and sf_query_all through sf_api_get
ApiRequest ==
    /\ \E q \in ApiCallsOver(NetOutcomes, CurCache, now, env) :
        /\ SetCache(q.cache)
        /\ cred_obs' = [IdleCredObs EXCEPT !.op = "request", !.at = now, !.ok = q.status = "ok",
                                           !.requests = q.requests,
                                           !.rejected = q.rejected]
    /\ UNCHANGED <<env, fn, now, dlVars, workerVars, appVars>>

\* one pass of the loop of create_job_applicant, for the record of ChatQ
CredCreate ==
    /\ \E r \in {create_attempt(CurCache, now, env, net, local[CredWorker].attempt, o) :
                    net \in NetOutcomes, o \in CreateOutcomes} :
        LET pair == PairOf(extract_contact_id(ChatQ), extract_job_id(ChatQ))
        IN  /\ SetCache(r.cache)
            /\ crm' = IF r.committed THEN Committed(crm, pair) ELSE crm
            /\ local' = [local EXCEPT ![CredWorker].attempt =
                             IF r.kind = "retry" THEN @ + 1 ELSE 0]
            /\ cred_obs' = [IdleCredObs EXCEPT !.op = "create", !.at = now,
                                               !.ok = r.kind = "success",
                                               !.requests = IF r.posted THEN 1 ELSE 0,
                                               !.rejected = r.rejected]
    /\ UNCHANGED <<env, fn, now, dlVars, stats, delivered, pc, chat, entries, idx, results, obs>>

InitCred == \E e \in Envs : InitWith(e)

NextCred ==
    \/ CredCreate
    \/ ApiRequest
    \/ Resolve
    \/ Invalidate
    \/ Tick

SpecCred == InitCred /\ [][NextCred]_vars

\* ------------------------------------------ single calls: SpecFn
\* One call of one function in a behaviour, on inputs drawn from the values
\* the function can be handed; fn keeps the inputs and what the call returned.

\* the values the fields read by classify_chat can hold
Agents == {"Violet"} \cup SKIP_AGENTS
ChatStatuses == {"ended", "ongoing", ""}
QualResults == SYNC_QUAL_RESULTS \cup {"not_qualified", ""}
InterestLevels == SYNC_INTEREST_LEVELS \cup {"not_interested", ""}
AnalyzedChats ==
    {[ChatQ EXCEPT !.agent_name = a, !.chat_status = s, !.has_custom = hc,
                   !.opted_out = oo, !.qualification_result = q, !.interest_level = i] :
        a \in Agents, s \in ChatStatuses, hc \in BOOLEAN, oo \in BOOLEAN,
        q \in QualResults, i \in InterestLevels}

\* a call that touches nothing of the service's state
FnFrame ==
    UNCHANGED <<env, now, cached_token, cached_instance, token_fetched_at, cred_obs,
                dlVars, workerVars, appVars>>

\* classify_chat, and the orchestrator's steps 1 and 2 on the same chat
Classify ==
    /\ fn = NoCall
    /\ \E c \in AnalyzedChats :
        fn' = [op |-> "classify", chat |-> c, out |-> classify_chat(c),
               start |-> process_start(c)]
    /\ FnFrame

\* the ids an event can carry for a person and for a job, in either form
EventContactIds == {Id("003", k, f) : k \in 1..MaxKey, f \in Forms}
EventJobIds == {Id("a0F", k, f) : k \in 1..MaxKey, f \in Forms}

\* the record lists the query of line 109 can return: up to two records,
\* each id in the form the CRM chose to return it in
QueryAnswers ==
    LET rows == {[cc |-> cc, jj |-> jj] : cc \in EventContactIds, jj \in EventJobIds}
    IN  {{}} \cup {{r1, r2} : r1, r2 \in rows}

\* lines 225-227 of process_chat_webhook on the records of a query that
\* succeeded: is the event's pair among the existing ones
DedupDecide ==
    /\ fn = NoCall
    /\ \E contact_id \in EventContactIds, job_id \in EventJobIds, records \in QueryAnswers :
        fn' = [op |-> "dedup", contact_id |-> contact_id, job_id |-> job_id,
               records |-> records,
               out |-> PairOf(contact_id, job_id)
                           \in check_existing_applicants("ok", records)]
    /\ FnFrame

\* what sf_query_all does for one batch of the loop of lines 106-118: the
\* records it returns, or an exception and no records
BatchAnswers ==
    {[status |-> "ok", records |-> rs] :
        rs \in SUBSET {[cc |-> Id("003", 1, 15), jj |-> Id("a0F", k, 15)] : k \in 1..MaxKey}}
    \cup {[status |-> "raise", records |-> {}]}

\* the loop of check_existing_applicants over its batches
check_existing_batches(batches) ==
    UNION {check_existing_applicants(batches[i].status, batches[i].records) :
              i \in DOMAIN batches}

\* check_existing_applicants on one to MaxBatches batches and the test of
\* lines 225-226 on what it returned
DedupBatches ==
    /\ fn = NoCall
    /\ \E n \in 1..MaxBatches, k \in 1..MaxKey :
        \E batches \in [1..n -> BatchAnswers] :
            LET existing == check_existing_batches(batches)
                pair == PairOf(Id("003", 1, 18), Id("a0F", k, 18))
            IN  fn' = [op |-> "dedup_batches", batches |-> batches, pair |-> pair,
                       existing |-> existing,
                       action |-> IF pair \in existing THEN "duplicate" ELSE "create"]
    /\ FnFrame

\* every combination of the settings the resolver reads
AllEnvs == {Env(tok, conn, refresh, cid, secret, user) :
                tok \in BOOLEAN, conn \in BOOLEAN, refresh \in BOOLEAN,
                cid \in BOOLEAN, secret \in BOOLEAN, user \in BOOLEAN}

\* the caches a resolve at time TOKEN_CACHE_TTL can meet: nothing cached yet,
\* a token invalidated, a pair as old as the TTL, a pair younger than it
CallCaches ==
    {Cache(NoToken, NoInstance, NoTime),
     Cache(NoToken, Instance("oauth"), NoTime),
     Cache(Tok("oauth", 1), Instance("oauth"), 0),
     Cache(Tok("oauth", 1), Instance("oauth"), TickSeconds)}

\* get_salesforce_credentials
ResolveCall ==
    /\ fn = NoCall
    /\ \E c \in CallCaches, e \in AllEnvs, net \in NetOutcomes :
        fn' = [op |-> "resolve", cache |-> c, at |-> TOKEN_CACHE_TTL, env |-> e, net |-> net,
               out |-> get_salesforce_credentials(c, TOKEN_CACHE_TTL, e, net)]
    /\ FnFrame

\* sf_api_get / sf_api_post: net1 and r1 are what the network answers to the
\* first resolve and the first request, net2 and r2 to the resolve and the
\* request after the invalidation
ApiCall ==
    /\ fn = NoCall
    /\ \E c \in CallCaches, e \in Envs, net1 \in NetOutcomes, net2 \in NetOutcomes,
          r1 \in Responses, r2 \in Responses :
        LET cred1 == get_salesforce_credentials(c, TOKEN_CACHE_TTL, e, net1)
            cred2 == get_salesforce_credentials(invalidate_token_cache(cred1.cache),
                                                TOKEN_CACHE_TTL, e, net2)
        IN  fn' = [op |-> "api", cache |-> c, env |-> e, net1 |-> net1, net2 |-> net2,
                   r1 |-> r1, r2 |-> r2, cred1 |-> cred1, cred2 |-> cred2,
                   out |-> sf_api_request(cred1, r1, cred2, r2)]
    /\ FnFrame

\* what the CRM or the network answers to the POSTs of one call, in order
CreateAnswers == [1..MaxAttempts -> CreateOutcomes]

\* create_job_applicant for the record of ChatQ, and lines 249-267 of the
\* orchestrator on what it returned
CreateCall ==
    /\ fn = NoCall
    /\ \E c \in CallCaches, e \in {EnvRefresh, EnvNone}, net \in NetOutcomes,
          outs \in CreateAnswers :
        LET out == create_job_applicant(c, TOKEN_CACHE_TTL, e, net, outs, 0)
        IN  fn' = [op |-> "create", cache |-> c, env |-> e, net |-> net, outs |-> outs,
                   out |-> out,
                   result |-> IF out.kind = "exception"
                              THEN [action |-> "raised", detail |-> out.error]
                              ELSE process_created(ChatQ, out.kind = "success", out.error)]
    /\ FnFrame

\* what an id field of an event can hold: nothing, the empty string, or a
\* string with a prefix of the CRM's or another, of full or of short length
FieldIds(p) ==
    {EmptyStr} \cup {Id(q, k, n) : q \in {p, "xyz"}, k \in 1..MaxKey, n \in {10, 18}}

\* extract_contact_id on an event whose three person fields are drawn freely
ExtractContact ==
    /\ fn = NoCall
    /\ \E dv \in FieldIds("003") \cup {Absent}, meta \in FieldIds("003") \cup {Absent},
          url \in FieldIds("003") \cup {NoMarker} :
        LET c == [ChatQ EXCEPT !.dv_candidate_id = dv, !.meta_candidate_id = meta,
                               !.candidate_salesforce_url = url]
        IN  fn' = [op |-> "extract_contact", chat |-> c, out |-> extract_contact_id(c)]
    /\ FnFrame

\* extract_job_id on an event whose two job fields are drawn freely
ExtractJob ==
    /\ fn = NoCall
    /\ \E url \in FieldIds("a0F") \cup {NoMarker}, j18 \in FieldIds("a0F") \cup {Absent} :
        LET c == [ChatQ EXCEPT !.job_salesforce_url = url, !.job_ID_18 = j18]
        IN  fn' = [op |-> "extract_job", chat |-> c, out |-> extract_job_id(c)]
    /\ FnFrame

\* the contents dead_letter.jsonl can have: up to MaxLines lines, each an
\* entry written by append, a blank line or a line that is not JSON
LogLines ==
    {JsonLine(DLEntry(c, [chat_id |-> c.chat_id], "error", 1, 0)) : c \in {ChatQ, ChatI}}
    \cup {BlankLine, TornLine}
LogContents == UNION {[1..n -> LogLines] : n \in 0..MaxLines}

\* read_all, count and the count of clear (lines 88-92) on the same file
StoreCalls ==
    /\ fn = NoCall
    /\ \E lines \in LogContents :
        fn' = [op |-> "store", lines |-> lines, read_all |-> ParseLines(lines),
               count |-> CountLines(lines), cleared |-> CountLines(lines)]
    /\ FnFrame

InitFn == InitWith(EnvRefresh) /\ crm = [p \in PairKeys |-> 0]

NextFn ==
    \/ Classify
    \/ DedupDecide
    \/ ResolveCall
    \/ ApiCall
    \/ CreateCall
    \/ StoreCalls
    \/ DedupBatches
    \/ ExtractContact
    \/ ExtractJob

SpecFn == InitFn /\ [][NextFn]_vars

\* ------------------------------ one request after the other: SpecSeq
\* The service after a restart, serving its requests one at a time: the
\* webhook secret is set or not, and the dead-letter file on disk holds what
\* failed webhooks of the earlier run left in it.

SeqWorker == "w1"

\* the entries failed webhooks for ChatQ and ChatI left in the file
StoredLines ==
    <<JsonLine(DLEntry(ChatQ, process_created(ChatQ, FALSE, "HTTP 500"), "HTTP 500", 1, 0)),
      JsonLine(DLEntry(ChatI, [chat_id |-> ChatI.chat_id], "ConnectionError", 2, 0))>>
StoredFiles == {NoFile} \cup {File(SubSeq(StoredLines, 1, n)) : n \in 1..Len(StoredLines)}

InitSeq ==
    /\ env \in {EnvRefresh, EnvNoKey}
    /\ fn = NoCall
    /\ now = 0
    /\ cached_token = NoToken
    /\ cached_instance = NoInstance
    /\ token_fetched_at = NoTime
    /\ cred_obs = IdleCredObs
    /\ crm \in [PairKeys -> {0, 1}]
    /\ live \in StoredFiles
    /\ archives = {}
    /\ dl_lock = "free"
    /\ appended = Len(live.lines)
    /\ stats = ZeroStats
    /\ pc = [w \in Workers |-> "idle"]
    /\ chat = [w \in Workers |-> NoChat]
    /\ entries = [w \in Workers |-> <<>>]
    /\ idx = [w \in Workers |-> 0]
    /\ results = [w \in Workers |-> <<>>]
    /\ local = [w \in Workers |-> IdleLocal]
    /\ obs = [w \in Workers |-> IdleObs]
    /\ delivered = 0

NextSeq ==
    \/ WebhookReceive(SeqWorker)
    \/ Dedup(SeqWorker)
    \/ Create(SeqWorker)
    \/ RetryStart(SeqWorker)
    \/ RetryClear(SeqWorker)
    \/ Respond(SeqWorker)

SpecSeq == InitSeq /\ [][NextSeq]_vars

\* ------------------------------- the service with entries waiting: SpecPar
\* The two workers of Spec, started while the dead-letter file holds the
\* entry of a webhook that failed before the restart.

InitPar ==
    /\ env = EnvRefresh
    /\ fn = NoCall
    /\ now = 0
    /\ cached_token = NoToken
    /\ cached_instance = NoInstance
    /\ token_fetched_at = NoTime
    /\ cred_obs = IdleCredObs
    /\ crm \in [PairKeys -> {0, 1}]
    /\ live = File(SubSeq(StoredLines, 1, 1))
    /\ archives = {}
    /\ dl_lock = "free"
    /\ appended = Len(live.lines)
    /\ stats = ZeroStats
    /\ pc = [w \in Workers |-> "idle"]
    /\ chat = [w \in Workers |-> NoChat]
    /\ entries = [w \in Workers |-> <<>>]
    /\ idx = [w \in Workers |-> 0]
    /\ results = [w \in Workers |-> <<>>]
    /\ local = [w \in Workers |-> IdleLocal]
    /\ obs = [w \in Workers |-> IdleObs]
    /\ delivered = 0

SpecPar == InitPar /\ [][Next]_vars

\* ------------------------------------------------------------ properties

\* C1: no lead is lost across replay. When retry_failed returns, every entry
\* whose replay ended in failure (action "error" in its results) has an entry
\* for its chat in the live dead-letter store.
FailedReplayKeptInLiveStore ==
    \A w \in Workers :
        (pc[w] = "respond" /\ entries[w] # <<>>) =>
            \A i \in DOMAIN results[w] :
                results[w][i].action = "error" =>
                    \E j \in DOMAIN live.lines :
                        /\ live.lines[j].kind = "json"
                        /\ live.lines[j].value.chat_id = results[w][i].chat_id

\* C2: the step in which the webhook handler's processing of a chat_analyzed
\* event ends with action "error" or with an exception of the orchestrator,
\* the file system taking the write, appends exactly one entry to the live
\* file, and that entry's chat_payload is the inbound chat unchanged.
FailureAppendsOneEntry ==
    [][\A w \in Workers :
        (/\ pc[w] # "respond"
         /\ pc'[w] = "respond"
         /\ entries[w] = <<>>
         /\ obs'[w].outcome \in {"error", "exception"}
         /\ obs'[w].resp = 204) =>
            /\ live'.exists
            /\ Len(live'.lines) = Len(live.lines) + 1
            /\ SubSeq(live'.lines, 1, Len(live.lines)) = live.lines
            /\ live'.lines[Len(live'.lines)].kind = "json"
            /\ live'.lines[Len(live'.lines)].value.chat_id = chat'[w].chat_id
            /\ live'.lines[Len(live'.lines)].value.chat_payload = chat'[w]
            /\ archives' = archives]_vars

\* a webhook whose create failed or raised has answered 204 with its entry written
FailureAppendsOneEntryReached ==
    \E w \in Workers :
        /\ pc[w] = "respond"
        /\ entries[w] = <<>>
        /\ obs[w].outcome \in {"error", "exception"}
        /\ obs[w].resp = 204
        /\ live.exists
        /\ live.lines[Len(live.lines)].value.chat_payload = chat[w]

\* C3: the orchestrator never raises to its caller: no run of
\* process_chat_webhook, for a webhook or for a replayed entry, ends with an
\* exception.
OrchestratorNeverRaises ==
    \A w \in Workers : obs[w].outcome # "exception"

\* C4: every request that passed the signature test and parsed as a
\* chat_analyzed event is answered 204, whatever happened inside.
ChatAnalyzedAnswered204 ==
    \A w \in Workers :
        (pc[w] = "respond" /\ entries[w] = <<>> /\ chat[w] # NoChat) => obs[w].resp = 204

\* C5: when a run's dedup query succeeded while the CRM already held a record
\* for the run's (person, job) pair, the run ends with action "duplicate" and
\* never reaches the create request; this for a webhook and for a replay.
ExistingPairEndsDuplicate ==
    \A w \in Workers :
        obs[w].dedup_hit =>
            /\ pc[w] \notin {"create", "r_create"}
            /\ obs[w].outcome = "duplicate"

\* a replayed entry met its pair's record in the CRM and ended as a duplicate
ReplayEndedDuplicate ==
    \E w \in Workers :
        /\ entries[w] # <<>>
        /\ obs[w].dedup_hit
        /\ results[w] # <<>>
        /\ results[w][Len(results[w])].action = "duplicate"

\* C6: archive-and-clear is atomic with respect to appends. A step that
\* writes an archive file puts every line of the live file into it and leaves
\* no live file, so the next append starts a fresh one; every other step
\* leaves the live file alone or adds one new entry at its end.
ArchiveAndClearAtomic ==
    [][/\ (archives' # archives =>
            /\ live.lines # <<>>
            /\ [name |-> ArchiveName(now), lines |-> live.lines] \in archives'
            /\ live' = NoFile)
       /\ (archives' = archives =>
            \/ live' = live
            \/ /\ live'.exists
               /\ Len(live'.lines) = Len(live.lines) + 1
               /\ SubSeq(live'.lines, 1, Len(live.lines)) = live.lines
               /\ appended' = appended + 1
               /\ live'.lines[Len(live'.lines)].value.seq = appended')]_vars

\* an entry whose append was called before a clear moved the file was written
\* after it, into the fresh live file
AppendLandedAfterClear ==
    \E a \in archives :
        /\ live.exists
        /\ \E j \in DOMAIN live.lines : live.lines[j].value.timestamp < a.name

\* C7: archiving never deletes data: every entry ever appended is stored in
\* exactly one place, a line of the live file or a line of one archive file.
EveryEntryStoredOnce ==
    \A s \in 1..appended :
        Cardinality(
            {<<NoTime, j>> : j \in {i \in DOMAIN live.lines : live.lines[i].value.seq = s}}
            \cup UNION {{<<a.name, j>> :
                            j \in {i \in DOMAIN a.lines : a.lines[i].value.seq = s}} :
                        a \in archives}) = 1

\* C8: dead-letter calls are linearized: no read_all, count or clear fails
\* because the live file went away between its existence test and its open.
NoCallFailsOnMissingFile ==
    \A w \in Workers : obs[w].error # "FileNotFoundError"

\* C9: a resolve that finds a cached pair younger than the TTL returns that
\* pair from the cache, with no request and the cache as it was; any other
\* resolve (no pair, a pair invalidated, a pair of age TTL or more) takes
\* nothing from the cache and runs the strategy chain.
CachedPairServedWithinTtl ==
    cred_obs.op = "resolve" =>
        IF cred_obs.had_pair /\ cred_obs.age < TOKEN_CACHE_TTL
        THEN /\ cred_obs.ok
             /\ cred_obs.from_cache
             /\ cred_obs.requests = 0
             /\ cred_obs.pair = cred_obs.before
             /\ <<cached_token, cached_instance>> = cred_obs.before
             /\ token_fetched_at = cred_obs.at - cred_obs.age
        ELSE /\ ~cred_obs.from_cache
             /\ cred_obs.ok => token_fetched_at = cred_obs.at

\* a resolve was answered from a cache filled some time before
ResolveServedFromCache ==
    /\ cred_obs.op = "resolve"
    /\ cred_obs.from_cache
    /\ cred_obs.age > 0
    /\ cred_obs.age < TOKEN_CACHE_TTL

\* C10: after a client call whose last CRM request was answered 401, the
\* cached token is gone, so that the next resolve runs the strategy chain.
RejectedTokenInvalidated ==
    cred_obs.rejected => cached_token = NoToken

\* C19: a chat whose agent is in the skip set, or whose status is "ongoing",
\* is classified skip whatever its analysis holds, and the orchestrator
\* returns skip for it before the extraction, the dedup query and the create.
SkipGatesComeFirst ==
    fn.op = "classify" =>
        ((fn.chat.agent_name \in SKIP_AGENTS \/ fn.chat.chat_status = "ongoing") =>
            /\ fn.out[1] = "skip"
            /\ fn.start.action = "skip"
            /\ "contact_id" \notin DOMAIN fn.start)

\* an ongoing chat of an active agent with a qualified analysis was classified skip
OngoingQualifiedChatSkipped ==
    /\ fn.op = "classify"
    /\ fn.chat.agent_name \notin SKIP_AGENTS
    /\ fn.chat.chat_status = "ongoing"
    /\ fn.chat.has_custom
    /\ ~fn.chat.opted_out
    /\ fn.chat.qualification_result = "fully_qualified"
    /\ fn.out = <<"skip", "chat still ongoing">>

\* C15: the dedup decision does not depend on the form of the ids: the run
\* finds its pair among the existing ones exactly when some returned record
\* names the same person and the same job, whether the event and the CRM give
\* the ids in their 15- or their 18-character form.
DedupIgnoresIdForm ==
    fn.op = "dedup" =>
        (fn.out <=>
            \E r \in fn.records :
                /\ r.cc.prefix = fn.contact_id.prefix /\ r.cc.key = fn.contact_id.key
                /\ r.jj.prefix = fn.job_id.prefix /\ r.jj.key = fn.job_id.key)

\* an event with 15-character ids met its pair's record returned in the
\* 18-character form
ShortIdsMatchedLongRecord ==
    /\ fn.op = "dedup"
    /\ fn.contact_id.len = 15
    /\ fn.job_id.len = 15
    /\ fn.out
    /\ \A r \in fn.records : r.cc.len = 18 /\ r.jj.len = 18

\* C16: a resolve that finds no cached pair younger than the TTL walks the
\* chain in order. A static token is returned with no request. Otherwise a
\* connector that answers and whose token passes the probe gives the pair; a
\* connector that fails, or a probe that fails, raises nothing and the chain
\* goes on. When refresh token and client id are set the refresh-token
\* exchange decides the call and the password exchange is not tried; else the
\* password exchange decides it when client id and user name are set; else
\* the call fails. A call that fails leaves the cache as it was, a call that
\* succeeds caches the pair it returns with the time of the call.
ResolveWalksChainInOrder ==
    (fn.op = "resolve" /\ ~(fn.cache.token # NoToken /\ fn.cache.fetched_at # NoTime
                             /\ fn.at - fn.cache.fetched_at < TOKEN_CACHE_TTL)) =>
        LET e == fn.env
            net == fn.net
            out == fn.out
            asked == IF ~e.connector THEN 0 ELSE IF net.connector # "ok" THEN 1 ELSE 2
            Exchange(mode) ==
                IF e.client_secret /\ net.oauth = "ok"
                THEN out.ok /\ out.token.mode = mode /\ out.requests = asked + 1
                ELSE ~out.ok /\ out.requests = asked + (IF e.client_secret THEN 1 ELSE 0)
        IN  /\ IF e.access_token
                    THEN out.ok /\ out.token.mode = "static" /\ out.requests = 0
                ELSE IF e.connector /\ net.connector = "ok" /\ net.probe = "200"
                    THEN out.ok /\ out.token.mode = "connector" /\ out.requests = 2
                ELSE IF e.refresh_token /\ e.client_id THEN Exchange("oauth")
                ELSE IF e.client_id /\ e.username THEN Exchange("password")
                ELSE ~out.ok /\ out.requests = asked
            /\ ~out.from_cache
            /\ out.ok => out.cache = Cache(out.token, out.instance, fn.at)
            /\ ~out.ok => out.cache = fn.cache /\ out.token = NoToken

\* with a stale pair cached, the connector's token failed the probe, the
\* refresh-token exchange failed and the call raised although the password
\* settings were there; the stale pair stayed as it was
RefreshFailureEndedResolve ==
    /\ fn.op = "resolve"
    /\ fn.cache.token # NoToken
    /\ fn.at - fn.cache.fetched_at >= TOKEN_CACHE_TTL
    /\ ~fn.env.access_token /\ fn.env.connector /\ fn.env.refresh_token
    /\ fn.env.client_id /\ fn.env.client_secret /\ fn.env.username
    /\ fn.net.connector = "ok" /\ fn.net.probe = "401" /\ fn.net.oauth = "fail"
    /\ ~fn.out.ok
    /\ fn.out.requests = 3
    /\ fn.out.cache = fn.cache

\* C11: one sf_api_get / sf_api_post call sends at most two requests. It
\* sends the second one exactly when the first was answered 401 and the
\* resolve after it gave credentials, after one invalidation of the cache and
\* one resolve that took nothing from the cache; when the second request is
\* rejected too the call raises, with no third request. After any other first
\* answer there is one request, no invalidation and no second resolve.
ApiRetriesOnceAfter401 ==
    fn.op = "api" =>
        LET out == fn.out
        IN  /\ out.requests <= 2
            /\ out.requests = 2 <=> (fn.cred1.ok /\ fn.r1 = "401" /\ fn.cred2.ok)
            /\ out.requests = 2 =>
                    /\ out.invalidations = 1
                    /\ out.resolves = 2
                    /\ ~fn.cred2.from_cache
                    /\ (fn.r2 # "200" => out.status = "raise")
                    /\ (fn.r2 = "200" => out.status = "ok")
            /\ (fn.cred1.ok /\ fn.r1 # "401") =>
                    /\ out.requests = 1
                    /\ out.invalidations = 0
                    /\ out.resolves = 1
                    /\ out.status = IF fn.r1 = "200" THEN "ok" ELSE "raise"
            /\ out.invalidations <= 1

\* both requests of a call were answered 401 and the call raised after the second
SecondRejectionEndedCall ==
    /\ fn.op = "api"
    /\ fn.r1 = "401"
    /\ fn.r2 = "401"
    /\ fn.out.requests = 2
    /\ fn.out.invalidations = 1
    /\ fn.out.status = "raise"

\* C12: one create_job_applicant call sends at most three POSTs. A further
\* POST is sent only after the one before it timed out, and after a call of
\* the resolver and one pause for each; any other answer ends the attempts.
\* When all three POSTs time out the orchestrator's outcome is "error" with
\* the detail "timeout after 3 attempts".
CreateStopsAfterThreeTimeouts ==
    fn.op = "create" =>
        LET out == fn.out
            Timed(k) == fn.outs[k] \in {"timeout", "timeout_committed"}
            lead == Cardinality({k \in 1..MaxAttempts : \A j \in 1..k : Timed(j)})
        IN  /\ out.posts <= MaxAttempts
            /\ out.posts <= lead + 1
            /\ \A k \in 1..(out.posts - 1) : Timed(k)
            /\ out.posts >= 1 =>
                    /\ out.pauses = out.posts - 1
                    /\ out.resolves >= out.posts
            /\ (out.posts = MaxAttempts /\ lead = MaxAttempts) =>
                    /\ out.kind = "failure"
                    /\ out.resolves = MaxAttempts
                    /\ fn.result.action = "error"
                    /\ fn.result.detail = "timeout after 3 attempts"

\* three POSTs timed out one after the other and the run ended in error
ThreeTimeoutsEndedInError ==
    /\ fn.op = "create"
    /\ \A k \in 1..MaxAttempts : fn.outs[k] = "timeout"
    /\ fn.out.posts = 3
    /\ fn.out.pauses = 2
    /\ fn.result.action = "error"
    /\ fn.result.detail = "timeout after 3 attempts"

\* C20: the outcome of a run that got an answer to its create POST is
\* "created" exactly when the answer had status 200 and its first element's
\* success flag set; a 200 answer whose first element reports failure gives
\* "error" with that element's errors as detail, and an answer with any
\* other status gives "error".
CreatedOnlyOnFlaggedSuccess ==
    fn.op = "create" =>
        /\ fn.out.posts = 0 => fn.result.action # "created"
        /\ fn.out.posts >= 1 =>
            LET last == fn.outs[fn.out.posts]
            IN  /\ fn.result.action = "created" <=> last = "success"
                /\ last = "failure" =>
                        /\ fn.result.action = "error"
                        /\ fn.result.detail = "errors"
                        /\ fn.result.sf_result = "errors"
                /\ last \in {"401", "http_error"} =>
                        /\ fn.result.action = "error"
                        /\ fn.result.detail \in {"HTTP 401", "HTTP 500"}

\* after a timeout the second POST was answered 200 with a failure element
\* and the run ended in error with the element's errors
FailureElementEndedInError ==
    /\ fn.op = "create"
    /\ fn.outs[1] = "timeout"
    /\ fn.outs[2] = "failure"
    /\ fn.out.posts = 2
    /\ fn.result.action = "error"
    /\ fn.result.detail = "errors"

\* C13: a run of the orchestrator that returned has called the notification
\* callback once when its action is "created", with event type "created" and
\* the id of the new record in the details, once when its action is "error",
\* with event type "error", and not at all when its action is "skip" or
\* "duplicate"; the event type is the action the run returned.
NotifiedOncePerCreateOrError ==
    \A w \in Workers :
        LET o == obs[w]
        IN  /\ o.outcome = "created" =>
                    /\ Len(o.notified) = 1
                    /\ o.notified[1].event_type = "created"
                    /\ "applicant_id" \in DOMAIN o.notified[1].details
                    /\ o.notified[1].details.chat_id = chat[w].chat_id
            /\ o.outcome = "error" =>
                    /\ Len(o.notified) = 1
                    /\ o.notified[1].event_type = "error"
                    /\ o.notified[1].details.chat_id = chat[w].chat_id
            /\ o.outcome \in {"skip", "duplicate"} => o.notified = <<>>
            /\ \A i \in DOMAIN o.notified : o.notified[i].event_type = o.outcome

\* a webhook's create failed and the run told of one error before it returned
ErrorRunNotifiedOnce ==
    \E w \in Workers :
        /\ pc[w] = "respond"
        /\ entries[w] = <<>>
        /\ obs[w].outcome = "error"
        /\ Len(obs[w].notified) = 1
        /\ obs[w].notified[1].event_type = "error"

ReplayArchivesOnceAfterLoop ==
    [][/\ archives' # archives =>
            \E w \in Workers :
                /\ pc[w] = "r_clear"
                /\ pc'[w] = "respond"
                /\ entries[w] # <<>>
                /\ Len(results[w]) = Len(entries[w])
       /\ \A w \in Workers :
            /\ (pc[w] # "r_clear" /\ pc'[w] = "r_clear") =>
                    /\ Len(results'[w]) = Len(entries[w])
                    /\ archives' = archives
            /\ (pc[w] \in {"r_dedup", "r_create"} /\ pc'[w] # pc[w]) =>
                    pc'[w] \in {"r_dedup", "r_create", "r_clear"}
            /\ (pc[w] = "r_clear" /\ pc'[w] # "r_clear") =>
                    /\ pc'[w] = "respond"
                    /\ (live.exists /\ CountLines(live.lines) > 0) =>
                            /\ live' = NoFile
                            /\ [name |-> ArchiveName(now), lines |-> live.lines] \in archives'
                            /\ Cardinality(archives') <= Cardinality(archives) + 1]_vars

\* a replay of two entries, one of which failed again, has archived both
ReplayOfTwoArchivedOnce ==
    \E w \in Workers :
        /\ pc[w] = "respond"
        /\ Len(entries[w]) = 2
        /\ Len(results[w]) = 2
        /\ \E i \in 1..2 : results[w][i].action = "error"
        /\ live = NoFile
        /\ archives = {[name |-> ArchiveName(now), lines |-> StoredLines]}

\* C18: with the webhook secret set, a request whose signature header is
\* absent or wrong is turned away in the step that received it, before its
\* body is parsed: the orchestrator is not run, no counter moves and nothing
\* is appended. With no secret set no request is turned away for its
\* signature.
BadSignatureRejectedUntouched ==
    [][\A w \in Workers :
        (pc[w] = "idle" /\ pc'[w] # "idle" /\ obs'[w].sig # "none") =>
            /\ (env.retell_key /\ obs'[w].sig # "good") =>
                    /\ pc'[w] = "respond"
                    /\ obs'[w].resp = IF obs'[w].sig = "non_ascii" THEN 500 ELSE 401
                    /\ chat'[w] = NoChat
                    /\ obs'[w].outcome = "none"
                    /\ stats' = stats
                    /\ live' = live
                    /\ archives' = archives
                    /\ appended' = appended
                    /\ crm' = crm
            /\ (~env.retell_key \/ obs'[w].sig = "good") =>
                    (pc'[w] = "respond" => obs'[w].resp \in {400, 204, 500})]_vars

\* a request with a wrong signature was answered 401 with every counter at zero
WrongSignatureAnswered401 ==
    \E w \in Workers :
        /\ env.retell_key
        /\ pc[w] = "respond"
        /\ obs[w].sig = "bad"
        /\ obs[w].resp = 401
        /\ stats = ZeroStats
        /\ appended = Len(live.lines)

\* C30: one create_job_applicant call, and so one run of the orchestrator,
\* makes the CRM commit at most one record for its pair, whatever the CRM and
\* the network answer to its POSTs.
OneRunCommitsAtMostOneRecord ==
    fn.op = "create" => fn.out.commits <= 1

\* C26: for a chat that passes the agent and the status gate the rules apply
\* in this order: no analysis data gives skip; else a set opt-out flag gives
\* skip; else a qualification result of the qualified set gives "qualified"
\* with stage "New Application"; else an interest level of the interested set
\* gives "interested" with stage "Candidate Interested"; else skip. The stage
\* the orchestrator carries into the record is the classifier's.
ClassifierRulesInOrder ==
    (/\ fn.op = "classify"
     /\ fn.chat.agent_name \notin SKIP_AGENTS
     /\ fn.chat.chat_status # "ongoing") =>
        LET c == fn.chat
        IN  /\ IF ~c.has_custom THEN fn.out = <<"skip", "no analysis data">>
                ELSE IF c.opted_out THEN fn.out = <<"skip", "opted out">>
                ELSE IF c.qualification_result \in {"fully_qualified", "partially_qualified"}
                    THEN fn.out = <<"qualified", "New Application">>
                ELSE IF c.interest_level \in {"very_interested", "somewhat_interested"}
                    THEN fn.out = <<"interested", "Candidate Interested">>
                ELSE fn.out[1] = "skip"
            /\ fn.out[1] # "skip" =>
                    /\ fn.start.action = "continue"
                    /\ fn.start.detail = fn.out[2]

\* a chat both qualified and interested was classified qualified, and a chat
\* of that kind is what the call was handed
QualifiedWinsOverInterested ==
    /\ fn.op = "classify"
    /\ fn.chat.chat_status = "ended"
    /\ fn.chat.has_custom
    /\ ~fn.chat.opted_out
    /\ fn.chat.qualification_result = "partially_qualified"
    /\ fn.chat.interest_level = "very_interested"
    /\ fn.out = <<"qualified", "New Application">>
    /\ fn.start.detail = "New Application"

\* C22: for every content of the live file count() is the number of entries
\* read_all() returns, and so is the number clear() reports for the file it
\* moves.
CountMatchesReadAll ==
    fn.op = "store" =>
        /\ fn.count = Len(fn.read_all)
        /\ fn.cleared = Len(fn.read_all)

\* C23: for a file of entries, blank lines and lines that are not JSON,
\* read_all returns the entries of the JSON lines, all of them and in file
\* order, whatever stands before or after them.
ReadAllSkipsDamage ==
    fn.op = "store" =>
        LET wellformed == SelectSeq(fn.lines, LAMBDA l : l.kind = "json")
        IN  /\ Len(fn.read_all) = Len(wellformed)
            /\ \A i \in DOMAIN wellformed : fn.read_all[i] = wellformed[i].value

\* read_all returned the two entries around a torn line, in their order
EntriesAroundTornLineRead ==
    /\ fn.op = "store"
    /\ Len(fn.lines) = 3
    /\ fn.lines[1].kind = "json"
    /\ fn.lines[2].kind = "malformed"
    /\ fn.lines[3].kind = "json"
    /\ fn.lines[1] # fn.lines[3]
    /\ fn.read_all = <<fn.lines[1].value, fn.lines[3].value>>

\* C24: whatever the fields of the event hold, extract_contact_id returns the
\* empty string or an id with prefix 003 and at least 15 characters, and
\* extract_job_id the empty string or an id with prefix a0F and at least 15
\* characters.
ExtractedIdsHaveTheForm ==
    /\ fn.op = "extract_contact" =>
            fn.out = EmptyStr \/ (fn.out.prefix = "003" /\ fn.out.len >= 15)
    /\ fn.op = "extract_job" =>
            fn.out = EmptyStr \/ (fn.out.prefix = "a0F" /\ fn.out.len >= 15)

\* C25: when the direct id field and the URL of an event both hold an id of
\* the right form and the two differ, each extractor returns the id of the
\* direct field.
DirectFieldBeforeUrl ==
    /\ fn.op = "extract_contact" =>
            LET direct == IF fn.chat.dv_candidate_id # Absent THEN fn.chat.dv_candidate_id
                          ELSE fn.chat.meta_candidate_id
                url == fn.chat.candidate_salesforce_url
            IN  direct.prefix = "003" /\ direct.len >= 15 /\ url.prefix = "003"
                    /\ url.len >= 15 /\ direct # url
                => fn.out = direct
    /\ fn.op = "extract_job" =>
            LET direct == fn.chat.job_ID_18
                url == fn.chat.job_salesforce_url
            IN  direct.prefix = "a0F" /\ direct.len >= 15 /\ url.prefix = "a0F"
                    /\ url.len >= 15 /\ direct # url
                => fn.out = direct

\* C28: an entry the webhook handler stored for a failed create carries the
\* contact id and job id extracted from its chat, and as stage and tier the
\* stage and the action the classifier gave that chat.
FailedCreateEntryKeepsStage ==
    \A i \in DOMAIN live.lines :
        LET e == live.lines[i].value
            c == e.chat_payload
        IN  e.contact_id # EmptyStr =>
                /\ e.contact_id = extract_contact_id(c)
                /\ e.job_id = extract_job_id(c)
                /\ e.stage = classify_chat(c)[2]
                /\ e.tier = classify_chat(c)[1]

\* C21: a batch whose dedup query failed adds no pair to what
\* check_existing_applicants returns and does not end the call: the pairs of
\* every batch whose query succeeded are returned, those before and those
\* after the failure. When every query failed the set is empty and the run
\* goes on to the create request.
DedupFailsOpen ==
    fn.op = "dedup_batches" =>
        LET answered == {i \in DOMAIN fn.batches : fn.batches[i].status = "ok"}
        IN  /\ fn.existing = UNION {ExistingPairs(fn.batches[i].records) : i \in answered}
            /\ answered = {} => fn.action = "create"

\* the first query failed and the pair was found by the second
PairFoundAfterFailedBatch ==
    /\ fn.op = "dedup_batches"
    /\ Len(fn.batches) = 2
    /\ fn.batches[1].status = "raise"
    /\ fn.batches[2].status = "ok"
    /\ fn.pair \in fn.existing
    /\ fn.action = "duplicate"

ArchivedEntriesWereReplayed ==
    [][\A w \in Workers :
        (pc[w] = "r_clear" /\ pc'[w] = "respond" /\ live' # live) =>
            \A i \in DOMAIN live.lines :
                \E j \in DOMAIN entries[w] :
                    /\ j <= Len(results[w])
                    /\ entries[w][j] = live.lines[i].value]_vars

====
